---- MODULE Spec2Model ----
(***************************************************************************)
(* Session/token lifecycle of the marketing-site backend:                  *)
(*   routes/auth.js        login, refresh, logout, logout-all, me,         *)
(*                         change-password, forgot-password, reset-password*)
(*   middleware/auth.js    auth, authorize                                 *)
(*   server.js (models)    userSchema, generateAuthToken,                  *)
(*                         generateRefreshToken, comparePassword           *)
(* Time is counted in seconds, the resolution of the iat/exp claims that   *)
(* jsonwebtoken writes into a token.  A signed token is a deterministic    *)
(* function of its payload and of the signing secret, so a token string is *)
(* modelled by the record of its claims plus the name of the secret.       *)
(***************************************************************************)
EXTENDS Integers, Sequences, FiniteSets, TLC

VARIABLES users, issued, now, advances, req, resp, revoked

\* utils/gemini.js: the clock in milliseconds (Date.now()), the number of
\* times it was advanced, rateLimiter.requests, the in-flight callers of the
\* AI functions, the history of canMakeRequest calls and of outbound posts
VARIABLES clock, ticks, requests, callers, calls, posts

\* utils/email.js and routes/contact.js: emailService.transporter, the
\* Contact collection, and the history of transporter.sendMail calls
VARIABLES transporter, contacts, outbox

\* routes/auth.js POST /register: the users it has created; a login that has
\* verified the password and not yet saved (the handler awaits between the
\* two), and the password each refresh token was obtained with
VARIABLES registered, pending, logins

\* server.js: the counters of the two express-rate-limit instances for one
\* client address, and the instants of the contact-form submissions that
\* the limiters let through to the handler
VARIABLES hits, arrivals

\* utils/email.js: where EmailService.init() stands and the names held by
\* this.templates
VARIABLES initPc, templates

\* routes/projects.js, routes/services.js, routes/team.js: the Project
\* document, and the order field of the Service and TeamMember documents
VARIABLES project, orders

aiVars == <<clock, ticks, requests, callers, calls, posts>>
mailVars == <<transporter, contacts, outbox>>
webVars == <<registered, pending, logins, hits, arrivals, initPc, templates,
             project, orders>>

vars == <<users, issued, now, advances, req, resp, revoked, aiVars, mailVars,
          webVars>>

(***************************** bounds **************************************)
\* number of times the clock may be advanced in one behaviour
MaxAdvances == 2
\* number of entries a principal's refreshTokens may hold (open sessions)
MaxSessions == 2
\* longest allow-list handed to authorize()
MaxRolesLen == 2
\* number of times the millisecond clock may be advanced in one behaviour
MaxTicks == 2
\* number of outbound posts one call may be followed through
MaxAttempts == 4
\* number of contact-form submissions in one behaviour
MaxContacts == 2
\* number of requests of the client address in one window of the general
\* limiter
MaxArrivals == 6
\* number of sendEmail calls made while init() runs
MaxMails == 2

(************************ program constants ********************************)
\* expiresIn: process.env.JWT_EXPIRES_IN || '1h'
AccessTTL == 3600
\* expiresIn: '7d'
RefreshTTL == 604800
\* refreshTokens.createdAt  expires: 604800  (TTL index of the collection)
RefreshIndexTTL == 604800
\* password-reset token: expiresIn: '1h'
ResetTTL == 3600

\* rateLimiter.maxRequests, rateLimiter.windowMs (gemini.js:10-11)
maxRequests == 60
windowMs == 60000
\* maxRetries, baseDelay of the retry loop (gemini.js:66-67)
maxRetries == 3
baseDelay == 1000

\* the principals of the user collection
UserIds == {"u1"}
Roles == {"admin", "manager", "employee"}

\* process.env.JWT_SECRET / process.env.JWT_REFRESH_SECRET; "forged" stands
\* for any string whose signature matches neither.
JWT_SECRET == "JWT_SECRET"
JWT_REFRESH_SECRET == "JWT_REFRESH_SECRET"
ForgedKey == "forged"

NoToken == [key |-> "none", userId |-> "none", email |-> "none",
            role |-> "none", purpose |-> "none", iat |-> 0, exp |-> 0]
NoDate == -1
\* an error message that names no delay
NoHint == -1
\* the requests in flight that call the AI functions
Callers == {"c1", "c2"}

\* an in-flight call of an AI function: where it stands (idle, await: an
\* axios.post is pending, sleep: in the backoff setTimeout, done), the
\* function, retryCount, the posts it has sent, the delays it has slept, the
\* instant its setTimeout fires, the outcomes its posts have had, what it
\* returned or threw
IdleCaller ==
    [pc |-> "idle", fn |-> "none", retryCount |-> 0, attempts |-> 0,
     slept |-> <<>>, wakeAt |-> 0, outcomes |-> <<>>, startedAt |-> 0,
     result |-> [kind |-> "none", message |-> "none", retryAfter |-> NoHint]]
NoUser == "none"

\* e-mail addresses a client may submit: the principal's, one of no
\* principal, and a string that is not an address
Emails == {"a@b.com", "x@y.com", "not-an-email"}
\* secrets a client may submit; "" is the empty body field
Passwords == {"pwA", "pwN", ""}
\* the new password of a change or reset; it satisfies the strength rule
NewPassword == "pwN"

\* the instants (in seconds) at which requests are observed: the start, one
\* second later, the instant at which a token of the start reaches the
\* refresh lifetime (one of second 1 has then outlived the access lifetime
\* only), the instant at which a token of second 1 reaches it, and so on
Instant(k) ==
    IF k = 0 THEN 0
    ELSE IF k = 1 THEN 1
    ELSE RefreshTTL + (k - 2)

(************************ model helpers ************************************)
\* express-validator isEmail()
isEmail(e) == e # "not-an-email"

\* body('newPassword').isLength({ min: 8 }).matches(...)
isStrong(pw) == pw = "pwN"

\* bcrypt.hash(password, saltRounds)
bcryptHash(pw) == <<"bcrypt", pw>>

\* userSchema.methods.comparePassword
comparePassword(u, pw) == users[u].password = bcryptHash(pw)

\* jwt.sign(payload, secret, {expiresIn})
jwtSign(key, userId, email, role, purpose, ttl) ==
    [key |-> key, userId |-> userId, email |-> email, role |-> role,
     purpose |-> purpose, iat |-> now, exp |-> now + ttl]

\* jwt.verify(token, secret): signature first, then the exp claim
jwtVerify(t, secret) ==
    IF t.key # secret THEN "JsonWebTokenError"
    ELSE IF now >= t.exp THEN "TokenExpiredError"
    ELSE "ok"

\* userSchema.methods.generateAuthToken
generateAuthToken(u) ==
    jwtSign(JWT_SECRET, u, users[u].email, users[u].role, "none", AccessTTL)

\* the token string built by userSchema.methods.generateRefreshToken
refreshTokenOf(u) ==
    jwtSign(JWT_REFRESH_SECRET, u, "none", "none", "none", RefreshTTL)

\* an assignment in place of the push
generateRefreshToken_assign(u) ==
    <<[token |-> refreshTokenOf(u), createdAt |-> now]>>

\* this.refreshTokens.push({ token: refreshToken })  (createdAt: Date.now)
generateRefreshToken(u) ==
    Append(users[u].refreshTokens, [token |-> refreshTokenOf(u), createdAt |-> now])

\* the token strings listed in a principal's refreshTokens
Listed(u) == {users[u].refreshTokens[i].token : i \in 1..Len(users[u].refreshTokens)}

\* $pull: { refreshTokens: { token: refreshToken } }: every matching entry
RECURSIVE Pull(_, _)
Pull(s, t) ==
    IF s = <<>> THEN <<>>
    ELSE IF Head(s).token = t THEN Pull(Tail(s), t)
    ELSE <<Head(s)>> \o Pull(Tail(s), t)

\* removal of one entry in place of the reset of the array
ClearAll_one(s) == IF s = <<>> THEN s ELSE Tail(s)

\* $set: { refreshTokens: [] }
ClearAll(s) == <<>>

\* the lookup without the isActive filter
FindActiveByEmail_anyState(e) ==
    {u \in UserIds : users[u].exists /\ users[u].email = e}

\* User.findOne({ email, isActive: true })
FindActiveByEmail(e) ==
    {u \in UserIds : users[u].exists /\ users[u].email = e /\ users[u].isActive}

\* the lookup without the isActive filter
FindForRefresh_anyState(id, t) ==
    {u \in UserIds : u = id /\ users[u].exists /\ t \in Listed(u)}

\* User.findOne({ _id, 'refreshTokens.token': refreshToken, isActive: true })
FindForRefresh(id, t) ==
    {u \in UserIds : u = id /\ users[u].exists /\ t \in Listed(u) /\ users[u].isActive}

\* User.findById(id)
FindById(id) == {u \in UserIds : u = id /\ users[u].exists}

\* the check with a test of the open sessions added
MissingOrInactive_session(id) ==
    FindById(id) = {} \/ ~users[id].isActive \/ users[id].refreshTokens = <<>>

\* the check without the isActive test
MissingOrInactive_exists(id) == FindById(id) = {}

\* !user || !user.isActive  after User.findById(id)
MissingOrInactive(id) == FindById(id) = {} \/ ~users[id].isActive

\* res.status(status).json({ message, token }) and res.cookie('refreshToken')
Response(status, message, token, cookie) ==
    [status |-> status, message |-> message, token |-> token, cookie |-> cookie]

\* the request handled last: its route and the part of its input that
\* identifies the principal or the token it is about
NoReq == [op |-> "none"]
NoResp == Response(0, "none", NoToken, NoToken)

(************************ auth middleware **********************************)
\* middleware/auth.js auth: the outcome for a bearer token (NoToken = no
\* Authorization header)
auth(t) ==
    IF t = NoToken
    THEN [status |-> 401, message |-> "Access denied. No token provided.", user |-> NoUser]
    ELSE IF jwtVerify(t, JWT_SECRET) = "JsonWebTokenError"
    THEN [status |-> 401, message |-> "Invalid token.", user |-> NoUser]
    ELSE IF jwtVerify(t, JWT_SECRET) = "TokenExpiredError"
    THEN [status |-> 401, message |-> "Token expired.", user |-> NoUser]
    ELSE IF MissingOrInactive(t.userId)
    THEN [status |-> 401, message |-> "Invalid token. User not found or inactive.",
          user |-> NoUser]
    ELSE [status |-> 200, message |-> "next", user |-> t.userId]

\* the response of a route whose auth middleware did not call next()
Denied(t) == Response(auth(t).status, auth(t).message, NoToken, NoToken)

\* roles.includes(role)
includes(roles, role) == \E i \in 1..Len(roles) : roles[i] = role

\* authorize with admin passing every allow-list
authorize_hierarchy(roles, role) ==
    IF role = NoUser
    THEN Response(401, "Authentication required.", NoToken, NoToken)
    ELSE IF Len(roles) # 0 /\ ~includes(roles, role) /\ role # "admin"
    THEN Response(403, "Insufficient permissions.", NoToken, NoToken)
    ELSE Response(200, "next", NoToken, NoToken)

\* middleware/auth.js authorize(roles): role is req.user.role, or NoUser when
\* no principal is attached to the request
authorize(roles, role) ==
    IF role = NoUser
    THEN Response(401, "Authentication required.", NoToken, NoToken)
    ELSE IF Len(roles) # 0 /\ ~includes(roles, role)
    THEN Response(403, "Insufficient permissions.", NoToken, NoToken)
    ELSE Response(200, "next", NoToken, NoToken)

(************************ initial state ************************************)
InitUsers ==
    [u \in UserIds |->
        [exists |-> TRUE,
         email |-> "a@b.com",
         password |-> bcryptHash("pwA"),
         role |-> "admin",
         isActive |-> TRUE,
         lastLogin |-> NoDate,
         refreshTokens |-> <<>>]]

\* no AI function has been called: rateLimiter.requests is [] (gemini.js:9)
InitAI ==
    /\ clock = 1000
    /\ ticks = 0
    /\ requests = <<>>
    /\ callers = [c \in Callers |-> IdleCaller]
    /\ calls = <<>>
    /\ posts = <<>>

\* the EmailService singleton right after its constructor: init() has not
\* resolved yet, this.transporter is null (email.js:9)
InitMail ==
    /\ transporter = "null"
    /\ contacts = <<>>
    /\ outbox = <<>>

\* no login is in flight
NoLogin == [user |-> NoUser, password |-> ""]

\* rateLimit({ windowMs, max }) and the path each instance is mounted on
\* (server.js:116-133); a path is the sequence of its segments
limiterOptions ==
    [limiter |-> [windowMs |-> 15 * 60 * 1000, max |-> 100, mount |-> <<"api">>],
     contactLimiter |-> [windowMs |-> 60 * 60 * 1000, max |-> 5,
                         mount |-> <<"api", "contact">>]]

\* the routers whose records carry an order field, and the ids of the
\* records they hold
Routers == {"services", "team"}
RecordIds == {"r1", "r2"}

\* a Project document as the schema defaults leave it (server.js:896-907)
InitProject ==
    [isPublic |-> FALSE, status |-> "planning", endDate |-> NoDate,
     teamMembers |-> <<>>]

\* POST /register has created nobody, no login is in flight, the limiters
\* have counted nothing (their store is empty), init() has run up to its
\* first await (email.js:9-12), the records have the schema default order
InitWeb ==
    /\ registered = <<>>
    /\ pending = NoLogin
    /\ logins = {}
    /\ hits = [l \in DOMAIN limiterOptions |-> [count |-> 0, resetTime |-> 0]]
    /\ arrivals = <<>>
    /\ initPc = "start"
    /\ templates = {}
    /\ project = InitProject
    /\ orders = [r \in Routers |-> [id \in RecordIds |-> 0]]

Init ==
    /\ users = InitUsers
    /\ issued = {}
    /\ now = 0
    /\ advances = 0
    /\ req = NoReq
    /\ resp = NoResp
    /\ revoked = {}
    /\ InitAI
    /\ InitMail
    /\ InitWeb

(************************ POST /login **************************************)
Login(email, password) ==
    /\ req' = [op |-> "login", email |-> email, password |-> password]
    /\ IF ~isEmail(email) \/ password = ""
       THEN /\ resp' = Response(400, "Validation failed", NoToken, NoToken)
            /\ UNCHANGED <<users, issued>>
       ELSE IF FindActiveByEmail(email) = {}
       THEN /\ resp' = Response(401, "Invalid credentials", NoToken, NoToken)
            /\ UNCHANGED <<users, issued>>
       ELSE LET u == CHOOSE x \in FindActiveByEmail(email) : TRUE IN
            IF ~comparePassword(u, password)
            THEN /\ resp' = Response(401, "Invalid credentials", NoToken, NoToken)
                 /\ UNCHANGED <<users, issued>>
            ELSE /\ Len(users[u].refreshTokens) < MaxSessions
                 /\ users' = [users EXCEPT ![u].refreshTokens = generateRefreshToken(u),
                                           ![u].lastLogin = now]
                 /\ issued' = issued \cup {generateAuthToken(u), refreshTokenOf(u)}
                 /\ resp' = Response(200, "Login successful",
                                     generateAuthToken(u), refreshTokenOf(u))
    /\ UNCHANGED <<now, advances, revoked>>
    /\ UNCHANGED <<aiVars, mailVars, webVars>>

(************************ POST /refresh ************************************)
\* cookie = req.cookies.refreshToken (NoToken: the cookie is absent)
refreshResponse(cookie) ==
    IF cookie = NoToken
    THEN Response(401, "Refresh token not provided", NoToken, NoToken)
    ELSE IF jwtVerify(cookie, JWT_REFRESH_SECRET) # "ok"
    THEN Response(401, "Invalid refresh token", NoToken, NoToken)
    ELSE IF FindForRefresh(cookie.userId, cookie) = {}
    THEN Response(401, "Invalid refresh token", NoToken, NoToken)
    ELSE Response(200, "ok", generateAuthToken(cookie.userId), NoToken)

Refresh(cookie) ==
    /\ req' = [op |-> "refresh"]
    /\ resp' = refreshResponse(cookie)
    /\ issued' = IF refreshResponse(cookie).status = 200
                 THEN issued \cup {refreshResponse(cookie).token}
                 ELSE issued
    /\ UNCHANGED <<users, now, advances, revoked>>
    /\ UNCHANGED <<aiVars, mailVars, webVars>>

(************************ POST /logout *************************************)
Logout(bearer, cookie) ==
    /\ req' = [op |-> "logout"]
    /\ IF auth(bearer).status # 200
       THEN /\ resp' = Denied(bearer)
            /\ UNCHANGED <<users, revoked>>
       ELSE /\ users' = IF cookie # NoToken
                        THEN [users EXCEPT ![auth(bearer).user].refreshTokens =
                                               Pull(@, cookie)]
                        ELSE users
            /\ revoked' = revoked \cup (Listed(auth(bearer).user) \cap {cookie})
            /\ resp' = Response(200, "Logout successful", NoToken, NoToken)
    /\ UNCHANGED <<issued, now, advances>>
    /\ UNCHANGED <<aiVars, mailVars, webVars>>

(************************ POST /logout-all *********************************)
LogoutAll(bearer) ==
    /\ req' = [op |-> "logout-all"]
    /\ IF auth(bearer).status # 200
       THEN /\ resp' = Denied(bearer)
            /\ UNCHANGED <<users, revoked>>
       ELSE /\ users' = [users EXCEPT ![auth(bearer).user].refreshTokens = ClearAll(@)]
            /\ revoked' = revoked \cup Listed(auth(bearer).user)
            /\ resp' = Response(200, "Logged out from all devices", NoToken, NoToken)
    /\ UNCHANGED <<issued, now, advances>>
    /\ UNCHANGED <<aiVars, mailVars, webVars>>

(************************ GET /me ******************************************)
GetMe(bearer) ==
    /\ req' = [op |-> "me"]
    /\ IF auth(bearer).status # 200
       THEN resp' = Denied(bearer)
       ELSE IF FindById(auth(bearer).user) = {}
       THEN resp' = Response(404, "User not found", NoToken, NoToken)
       ELSE resp' = Response(200, "ok", NoToken, NoToken)
    /\ UNCHANGED <<users, issued, now, advances, revoked>>
    /\ UNCHANGED <<aiVars, mailVars, webVars>>

(************************ PUT /change-password *****************************)
ChangePassword(bearer, currentPassword, newPassword) ==
    /\ req' = [op |-> "change-password"]
    /\ IF auth(bearer).status # 200
       THEN /\ resp' = Denied(bearer)
            /\ UNCHANGED users
       ELSE IF currentPassword = "" \/ ~isStrong(newPassword)
       THEN /\ resp' = Response(400, "Validation failed", NoToken, NoToken)
            /\ UNCHANGED users
       ELSE IF ~comparePassword(auth(bearer).user, currentPassword)
       THEN /\ resp' = Response(400, "Current password is incorrect", NoToken, NoToken)
            /\ UNCHANGED users
       ELSE /\ users' = [users EXCEPT ![auth(bearer).user].password = bcryptHash(newPassword),
                                      ![auth(bearer).user].refreshTokens = <<>>]
            /\ resp' = Response(200, "Password changed successfully. Please log in again.",
                                NoToken, NoToken)
    /\ UNCHANGED <<issued, now, advances, revoked>>
    /\ UNCHANGED <<aiVars, mailVars, webVars>>

(************************ POST /forgot-password ****************************)
\* the token signed at auth.js:508
resetTokenOf(u) == jwtSign(JWT_SECRET, u, "none", "none", "password-reset", ResetTTL)

\* emailSent: whether sendEmail resolved (TRUE) or threw (FALSE)
ForgotPassword(email, emailSent) ==
    /\ req' = [op |-> "forgot-password", email |-> email]
    /\ IF ~isEmail(email)
       THEN /\ resp' = Response(400, "Validation failed", NoToken, NoToken)
            /\ UNCHANGED issued
       ELSE IF FindActiveByEmail(email) = {}
       THEN /\ resp' = Response(200,
                                "If the email exists, a password reset link has been sent.",
                                NoToken, NoToken)
            /\ UNCHANGED issued
       ELSE IF ~emailSent
       THEN /\ resp' = Response(500, "Failed to send password reset email",
                                NoToken, NoToken)
            /\ UNCHANGED issued
       ELSE /\ resp' = Response(200,
                                "If the email exists, a password reset link has been sent.",
                                NoToken, NoToken)
            /\ issued' = issued \cup
                   {resetTokenOf(CHOOSE x \in FindActiveByEmail(email) : TRUE)}
    /\ UNCHANGED <<users, now, advances, revoked>>
    /\ UNCHANGED <<aiVars, mailVars, webVars>>

(************************ POST /reset-password *****************************)
ResetPassword(token, newPassword) ==
    /\ req' = [op |-> "reset-password", token |-> token]
    /\ IF token = NoToken \/ ~isStrong(newPassword)
       THEN /\ resp' = Response(400, "Validation failed", NoToken, NoToken)
            /\ UNCHANGED users
       ELSE IF jwtVerify(token, JWT_SECRET) # "ok"
       THEN /\ resp' = Response(400, "Invalid or expired reset token", NoToken, NoToken)
            /\ UNCHANGED users
       ELSE IF token.purpose # "password-reset"
       THEN /\ resp' = Response(400, "Invalid reset token", NoToken, NoToken)
            /\ UNCHANGED users
       ELSE IF MissingOrInactive(token.userId)
       THEN /\ resp' = Response(400, "Invalid reset token", NoToken, NoToken)
            /\ UNCHANGED users
       ELSE /\ users' = [users EXCEPT ![token.userId].password = bcryptHash(newPassword),
                                      ![token.userId].refreshTokens = <<>>]
            /\ resp' = Response(200,
                   "Password reset successful. Please log in with your new password.",
                   NoToken, NoToken)
    /\ UNCHANGED <<issued, now, advances, revoked>>
    /\ UNCHANGED <<aiVars, mailVars, webVars>>

(************************ environment **************************************)
\* the clock
Advance ==
    /\ advances < MaxAdvances
    /\ now' = Instant(advances + 1)
    /\ advances' = advances + 1
    /\ UNCHANGED <<users, issued, req, resp, revoked>>
    /\ UNCHANGED <<aiVars, mailVars, webVars>>

\* the persistence layer flips userSchema.isActive (no route of the
\* repository writes the field; it is set by database administration)
SetActive(u, b) ==
    /\ users[u].exists
    /\ users[u].isActive # b
    /\ users' = [users EXCEPT ![u].isActive = b]
    /\ UNCHANGED <<issued, now, advances, req, resp, revoked>>
    /\ UNCHANGED <<aiVars, mailVars, webVars>>

\* a document the database has deleted
DeletedUser ==
    [exists |-> FALSE, email |-> "none", password |-> <<"none", "none">>, role |-> "none",
     isActive |-> FALSE, lastLogin |-> NoDate, refreshTokens |-> <<>>]

\* the TTL index that `expires: 604800` declares on refreshTokens.createdAt:
\* the database deletes a document once the earliest date of the indexed
\* array field is older than the TTL
TTLMonitor(u) ==
    /\ users[u].exists
    /\ \E i \in 1..Len(users[u].refreshTokens) :
           users[u].refreshTokens[i].createdAt + RefreshIndexTTL <= now
    /\ users' = [users EXCEPT ![u] = DeletedUser]
    /\ UNCHANGED <<issued, now, advances, req, resp, revoked>>
    /\ UNCHANGED <<aiVars, mailVars, webVars>>

\* a string that carries no signature of the server
ForgedToken ==
    [key |-> ForgedKey, userId |-> "u1", email |-> "a@b.com", role |-> "admin",
     purpose |-> "none", iat |-> 0, exp |-> 0]

\* Authorization header / body token: a token the server signed with
\* JWT_SECRET, none, or a string that does not verify
Bearers == {t \in issued : t.key = JWT_SECRET} \cup {NoToken, ForgedToken}
\* refreshToken cookie: a token the server signed with JWT_REFRESH_SECRET,
\* none, or a string that does not verify
Cookies == {t \in issued : t.key = JWT_REFRESH_SECRET} \cup {NoToken, ForgedToken}

\* the cookies worth sending along with a bearer token: the handler reads
\* the cookie only after the auth middleware has called next()
CookiesWith(b) == IF auth(b).status = 200 THEN Cookies ELSE {NoToken}

\* session lifecycle: login, refresh, logout, logout-all, a protected route
Next ==
    \/ \E e \in Emails, p \in Passwords : Login(e, p)
    \/ \E c \in Cookies : Refresh(c)
    \/ \E b \in Bearers : \E c \in CookiesWith(b) : Logout(b, c)
    \/ \E b \in Bearers : LogoutAll(b)
    \/ \E b \in Bearers : GetMe(b)
    \/ Advance
    \/ \E u \in UserIds, b \in BOOLEAN : SetActive(u, b)
    \/ \E u \in UserIds : TTLMonitor(u)

Spec == Init /\ [][Next]_vars

\* password reset: login, refresh, a protected route, forgot-password,
\* reset-password
NextReset ==
    \/ \E e \in Emails, p \in Passwords : Login(e, p)
    \/ \E c \in Cookies : Refresh(c)
    \/ \E b \in Bearers : GetMe(b)
    \/ \E e \in Emails, ok \in BOOLEAN : ForgotPassword(e, ok)
    \/ \E t \in Bearers : ResetPassword(t, NewPassword)
    \/ Advance
    \/ \E u \in UserIds, b \in BOOLEAN : SetActive(u, b)

SpecReset == Init /\ [][NextReset]_vars

\* password change: login, refresh, change-password
NextChange ==
    \/ \E e \in Emails, p \in Passwords : Login(e, p)
    \/ \E c \in Cookies : Refresh(c)
    \/ \E b \in Bearers, p \in Passwords : ChangePassword(b, p, NewPassword)
    \/ Advance

SpecChange == Init /\ [][NextChange]_vars

(************************ authorize as a function **************************)
\* the allow-lists of the routes: arrays of roles of length <= MaxRolesLen
RoleLists == UNION {[1..n -> Roles] : n \in 0..MaxRolesLen}

InitAuthz ==
    /\ users = InitUsers
    /\ issued = {}
    /\ now = 0
    /\ advances = 0
    /\ req \in [op : {"authorize"}, role : Roles \cup {NoUser}, roles : RoleLists]
    /\ resp = NoResp
    /\ revoked = {}
    /\ InitAI
    /\ InitMail
    /\ InitWeb

Authorize ==
    /\ req.op = "authorize"
    /\ resp' = authorize(req.roles, req.role)
    /\ req' = [req EXCEPT !.op = "authorized"]
    /\ UNCHANGED <<users, issued, now, advances, revoked>>
    /\ UNCHANGED <<aiVars, mailVars, webVars>>

NextAuthz == Authorize

SpecAuthz == InitAuthz /\ [][NextAuthz]_vars


(***************************************************************************)
(* utils/gemini.js: the rate limiter and the AI functions                  *)
(***************************************************************************)
\* requests.filter(time => now - time < this.windowMs)
Pruned(reqs, t) == SelectSeq(reqs, LAMBDA time : t - time < windowMs)

\* the test with the comparison off by one
AtCapacity_offByOne(reqs) == Len(reqs) > maxRequests

\* this.requests.length >= this.maxRequests
AtCapacity(reqs) == Len(reqs) >= maxRequests

\* rateLimiter.canMakeRequest(): its return value at the current instant ...
canMakeRequest == ~AtCapacity(Pruned(requests, clock))

\* the push made before the test of the length
requestsAfter_pushAlways == Append(Pruned(requests, clock), clock)

\* ... and this.requests when it returns
requestsAfter ==
    IF canMakeRequest
    THEN Append(Pruned(requests, clock), clock)
    ELSE Pruned(requests, clock)

\* rateLimiter.getRetryDelay() on the array canMakeRequest has left
getRetryDelay(reqs) ==
    IF reqs # <<>> /\ reqs[1] # 0 THEN windowMs - (clock - reqs[1]) ELSE 0

\* Math.ceil(retryDelay / 1000)
CeilSeconds(ms) == (ms + 999) \div 1000

\* what an AI function hands to its caller: the text, or the Error it throws
\* (message, and the number of seconds the message tells to wait, if any)
Payload == [kind |-> "ok", message |-> "text", retryAfter |-> NoHint]
Failure(message, retryAfter) ==
    [kind |-> "error", message |-> message, retryAfter |-> retryAfter]

\* throw new Error(`Rate limit exceeded. Please try again in ${...} seconds.`)
RateLimitError ==
    Failure("Rate limit exceeded. Please try again in N seconds.",
            CeilSeconds(getRetryDelay(requestsAfter)))

\* the catch block with status 403 answered as status 429 is
suggestionsCatch_deniedAsBusy(cause) ==
    IF cause = "429" \/ cause = "403"
    THEN Failure("Service temporarily unavailable due to high demand. Please try again in a few minutes.", NoHint)
    ELSE IF cause = "timeout"
    THEN Failure("Request timeout. Please try again.", NoHint)
    ELSE Failure("Failed to generate project suggestions. Please try again later.", NoHint)

\* the catch block of generateProjectSuggestions (gemini.js:116-136); cause
\* is what was thrown inside the try: an axios rejection with
\* error.response.status 429 or 403, one with error.code ECONNABORTED /
\* ETIMEDOUT ("timeout"), or anything else
suggestionsCatch(cause) ==
    IF cause = "429"
    THEN Failure("Service temporarily unavailable due to high demand. Please try again in a few minutes.", NoHint)
    ELSE IF cause = "403"
    THEN Failure("API access denied. Please check API key configuration.", NoHint)
    ELSE IF cause = "timeout"
    THEN Failure("Request timeout. Please try again.", NoHint)
    ELSE Failure("Failed to generate project suggestions. Please try again later.", NoHint)

\* what generateContent, analyzeTechStack and generateSEOContent throw on an
\* outcome of axios.post: the catch block rethrows the error it caught
simpleResult(o) ==
    IF o = "200" THEN Payload
    ELSE IF o \in {"200-malformed", "204"}
    THEN Failure("Invalid response from Gemini API", NoHint)
    ELSE IF o = "timeout" THEN Failure("timeout of 30000ms exceeded", NoHint)
    ELSE Failure("Request failed with status code " \o o, NoHint)

\* the delay with a constant in place of the power
backoffDelay_constant(retryCount) == baseDelay

\* baseDelay * Math.pow(2, retryCount - 1)
backoffDelay(retryCount) == baseDelay * 2 ^ (retryCount - 1)

\* the outcomes of an axios.post: it resolves for a 2xx status (200 with a
\* body that holds candidates, 200 with one that does not, 204), rejects
\* with error.response.status for any other status, and rejects with
\* error.code ECONNABORTED when the 30 s timeout passes
Outcomes == {"200", "200-malformed", "204", "429", "403", "500", "timeout"}

SimpleFns == {"generateContent", "analyzeTechStack", "generateSEOContent"}

\* the caller enters an AI function: the limiter is consulted and, when it
\* admits the call, the first axios.post is sent before the first await
Enter(c, fn, rejected) ==
    /\ callers[c].pc = "idle"
    /\ requests' = requestsAfter
    /\ calls' = Append(calls, [at |-> clock, admitted |-> canMakeRequest, caller |-> c])
    /\ IF canMakeRequest
       THEN /\ posts' = Append(posts, clock)
            /\ callers' = [callers EXCEPT ![c] =
                   [IdleCaller EXCEPT !.pc = "await", !.fn = fn, !.attempts = 1,
                                      !.startedAt = clock]]
       ELSE /\ UNCHANGED posts
            /\ callers' = [callers EXCEPT ![c] =
                   [IdleCaller EXCEPT !.pc = "done", !.fn = fn, !.startedAt = clock,
                                      !.result = rejected]]
    /\ UNCHANGED <<clock, ticks, mailVars, webVars>>
    /\ UNCHANGED <<users, issued, now, advances, req, resp, revoked>>

\* generateProjectSuggestions up to its first await (gemini.js:34-76): the
\* Error of the limiter is thrown inside the try and lands in the catch block
GenerateProjectSuggestions(c) ==
    Enter(c, "generateProjectSuggestions", suggestionsCatch("rate-limit"))

\* generateContent / analyzeTechStack / generateSEOContent up to the await
\* (gemini.js:140-178, 195-229, 246-279); their catch block rethrows
SimpleCall(c, fn) == Enter(c, fn, RateLimitError)

\* the pending axios.post of generateProjectSuggestions settles with outcome
\* o and the function runs to its next await or to its end (gemini.js:69-136)
SuggestionsResponse(c, o) ==
    /\ callers[c].pc = "await"
    /\ callers[c].fn = "generateProjectSuggestions"
    /\ IF o = "200"
       THEN /\ callers' = [callers EXCEPT ![c].pc = "done", ![c].result = Payload,
                                          ![c].outcomes = Append(@, o)]
            /\ UNCHANGED posts
       ELSE IF o = "204"
       THEN \* status is not 200: no break, retryCount as it was, next turn
            \* of the while loop
            /\ callers[c].attempts < MaxAttempts
            /\ posts' = Append(posts, clock)
            /\ callers' = [callers EXCEPT ![c].attempts = @ + 1,
                                          ![c].outcomes = Append(@, o)]
       ELSE IF o = "429" /\ callers[c].retryCount + 1 < maxRetries
       THEN /\ callers' = [callers EXCEPT
                  ![c].pc = "sleep",
                  ![c].retryCount = @ + 1,
                  ![c].slept = Append(@, backoffDelay(callers[c].retryCount + 1)),
                  ![c].wakeAt = clock + backoffDelay(callers[c].retryCount + 1),
                  ![c].outcomes = Append(@, o)]
            /\ UNCHANGED posts
       ELSE /\ callers' = [callers EXCEPT
                  ![c].pc = "done",
                  ![c].retryCount = IF o = "429" THEN @ + 1 ELSE @,
                  ![c].result = suggestionsCatch(IF o = "200-malformed"
                                                 THEN "malformed" ELSE o),
                  ![c].outcomes = Append(@, o)]
            /\ UNCHANGED posts
    /\ UNCHANGED <<clock, ticks, requests, calls, mailVars, webVars>>
    /\ UNCHANGED <<users, issued, now, advances, req, resp, revoked>>

\* the setTimeout of the backoff fires and the loop posts again
\* (gemini.js:89-90, 69-71)
Wake(c) ==
    /\ callers[c].pc = "sleep"
    /\ clock >= callers[c].wakeAt
    /\ callers[c].attempts < MaxAttempts
    /\ posts' = Append(posts, clock)
    /\ callers' = [callers EXCEPT ![c].pc = "await", ![c].attempts = @ + 1]
    /\ UNCHANGED <<clock, ticks, requests, calls, mailVars, webVars>>
    /\ UNCHANGED <<users, issued, now, advances, req, resp, revoked>>

\* the pending axios.post of one of the other three functions settles
SimpleResponse(c, o) ==
    /\ callers[c].pc = "await"
    /\ callers[c].fn \in SimpleFns
    /\ callers' = [callers EXCEPT ![c].pc = "done", ![c].result = simpleResult(o),
                                  ![c].outcomes = Append(@, o)]
    /\ UNCHANGED <<clock, ticks, requests, calls, posts, mailVars, webVars>>
    /\ UNCHANGED <<users, issued, now, advances, req, resp, revoked>>

\* Date.now() moves on by one backoff unit, or to one unit short of a window
TickSteps == {baseDelay, windowMs - baseDelay}

Tick(d) ==
    /\ ticks < MaxTicks
    /\ clock' = clock + d
    /\ ticks' = ticks + 1
    /\ UNCHANGED <<requests, callers, calls, posts, mailVars, webVars>>
    /\ UNCHANGED <<users, issued, now, advances, req, resp, revoked>>

\* the window as a burst of k admitted calls at the first instant has left
\* it: empty, one slot free, full
Loads == {0, maxRequests - 1, maxRequests}

InitLoaded ==
    /\ users = InitUsers
    /\ issued = {}
    /\ now = 0
    /\ advances = 0
    /\ req = NoReq
    /\ resp = NoResp
    /\ revoked = {}
    /\ clock = 1000
    /\ ticks = 0
    /\ callers = [c \in Callers |-> IdleCaller]
    /\ \E k \in Loads :
          /\ requests = [i \in 1..k |-> 1000]
          /\ calls = [i \in 1..k |-> [at |-> 1000, admitted |-> TRUE, caller |-> "burst"]]
          /\ posts = [i \in 1..k |-> 1000]
    /\ InitMail
    /\ InitWeb

\* the rate window under concurrent callers of the four AI functions, the
\* provider answering 200 or 429
NextAI ==
    \/ \E c \in Callers : GenerateProjectSuggestions(c)
    \/ \E c \in Callers, fn \in SimpleFns : SimpleCall(c, fn)
    \/ \E c \in Callers, o \in {"200", "429"} : SuggestionsResponse(c, o)
    \/ \E c \in Callers, o \in {"200", "429"} : SimpleResponse(c, o)
    \/ \E c \in Callers : Wake(c)
    \/ \E d \in TickSteps : Tick(d)

SpecAI == InitLoaded /\ [][NextAI]_vars

\* the retry loop of generateProjectSuggestions, one caller, every outcome
\* of the provider
NextRetry ==
    \/ GenerateProjectSuggestions("c1")
    \/ \E o \in Outcomes : SuggestionsResponse("c1", o)
    \/ Wake("c1")
    \/ \E d \in TickSteps : Tick(d)

SpecRetry == Init /\ [][NextRetry]_vars

(***************************************************************************)
(* utils/email.js sendEmail and routes/contact.js POST /                   *)
(***************************************************************************)
\* the outcomes of transporter.sendMail: delivered, a failure that may pass
\* (connection timeout, SMTP 4xx), one that will not (SMTP 5xx)
MailOutcomes == {"sent", "transient", "permanent"}

\* one call of sendEmail (email.js:201-250), as the entry it leaves in the
\* history: the html body, the outcomes of the sendMail calls it made, and whether it
\* resolved ("sent") or threw ("error"); o is the outcome of sendMail
\* mailOptions.html for a call that passes a template name and no html
\* (email.js:203-213): the rendered template when this.templates has the
\* name, the html parameter -- undefined -- otherwise
emailHtml(template) ==
    IF template \in templates THEN "rendered" ELSE "undefined"

sendEmail(template, to, o) ==
    IF transporter = "null"
    THEN [template |-> template, to |-> to, html |-> emailHtml(template),
          outcomes |-> <<>>, result |-> "error"]
    ELSE [template |-> template, to |-> to, html |-> emailHtml(template),
          outcomes |-> <<o>>, result |-> IF o = "sent" THEN "sent" ELSE "error"]

\* init() has created the transporter (email.js:18-47)
CreateTransport ==
    /\ transporter = "null"
    /\ transporter' = "ready"
    /\ UNCHANGED <<contacts, outbox, aiVars, webVars>>
    /\ UNCHANGED <<users, issued, now, advances, req, resp, revoked>>

\* the bodies of a contact form: two that pass contactValidation, one with
\* an e-mail field that is no address, one with a message under 10 characters
ContactBodies ==
    {[name |-> "Asha Rao", email |-> "x@y.com", message |-> "Please call me back"],
     [name |-> "Ben Lee", email |-> "a@b.com", message |-> "We need a new website"],
     [name |-> "Asha Rao", email |-> "not-an-email", message |-> "Please call me back"],
     [name |-> "Ben Lee", email |-> "a@b.com", message |-> "short"]}

\* contactValidation (contact.js:12-45)
validContact(body) == isEmail(body.email) /\ body.message # "short"

\* the inner catch rethrowing what sendEmail threw
contactResponse_rethrow(emailFailed) ==
    IF emailFailed
    THEN Response(500, "Something went wrong. Please try again later.", NoToken, NoToken)
    ELSE Response(201, "Thank you for your message! We'll get back to you within 24 hours.",
                  NoToken, NoToken)

\* the response once the contact is saved (contact.js:112-124): the inner
\* catch logs the error of sendEmail and goes on
contactResponse(emailFailed) ==
    Response(201, "Thank you for your message! We'll get back to you within 24 hours.",
             NoToken, NoToken)

\* the entries the two sendEmail calls of the handler leave: the auto-reply
\* is not attempted when the notification threw (contact.js:83-115)
contactEmails(body, o1, o2) ==
    IF sendEmail("contact-notification", "hello@inoxdev.com", o1).result = "sent"
    THEN <<sendEmail("contact-notification", "hello@inoxdev.com", o1),
           sendEmail("contact-auto-reply", body.email, o2)>>
    ELSE <<sendEmail("contact-notification", "hello@inoxdev.com", o1)>>

\* POST /api/contact (contact.js:50-134); saved: whether contact.save()
\* resolved; o1, o2: the outcomes of sendMail for the notification and for
\* the auto-reply
SubmitContact(body, saved, o1, o2) ==
    /\ Len(contacts) < MaxContacts
    /\ req' = [op |-> "contact", body |-> body, saved |-> saved]
    /\ IF ~validContact(body)
       THEN /\ resp' = Response(400, "Validation failed", NoToken, NoToken)
            /\ UNCHANGED <<contacts, outbox>>
       ELSE IF ~saved
       THEN /\ resp' = Response(500, "Something went wrong. Please try again later.",
                                NoToken, NoToken)
            /\ UNCHANGED <<contacts, outbox>>
       ELSE /\ contacts' = Append(contacts, body)
            /\ outbox' = outbox \o contactEmails(body, o1, o2)
            /\ resp' = contactResponse(
                   \E i \in DOMAIN contactEmails(body, o1, o2) :
                       contactEmails(body, o1, o2)[i].result = "error")
    /\ UNCHANGED <<transporter, aiVars, webVars>>
    /\ UNCHANGED <<users, issued, now, advances, revoked>>

NextContact ==
    \/ CreateTransport
    \/ \E body \in ContactBodies, saved \in BOOLEAN, o1, o2 \in MailOutcomes :
          SubmitContact(body, saved, o1, o2)

SpecContact == Init /\ [][NextContact]_vars

(***************************************************************************)
(* routes/auth.js POST /register                                           *)
(***************************************************************************)
\* the bodies of a registration: a new address with no role field, a new
\* address with role admin, the address of the principal, a string that is
\* no address
RegisterBodies ==
    {[name |-> "Dev One", email |-> "x@y.com", password |-> "pwN", role |-> "none"],
     [name |-> "Dev One", email |-> "x@y.com", password |-> "pwN", role |-> "admin"],
     [name |-> "Dev One", email |-> "a@b.com", password |-> "pwN", role |-> "none"],
     [name |-> "Dev One", email |-> "not-an-email", password |-> "pwN", role |-> "none"]}

\* the validation chain of the route (auth.js:15-34); role is optional
validRegistration(body) ==
    /\ isEmail(body.email)
    /\ isStrong(body.password)
    /\ body.role \in Roles \cup {"none"}

\* the test letting every role but employee through
notAdmin_employeeOnly(role) == role = "employee"

\* req.user.role !== 'admin'  (auth.js:38)
notAdmin(role) == role # "admin"

\* User.findOne({ email })  (auth.js:57)
existingUser(email) ==
    \/ \E u \in UserIds : users[u].exists /\ users[u].email = email
    \/ \E i \in DOMAIN registered : registered[i].email = email

\* new User({ name, email, password, role }) with role = 'employee' when the
\* body names none; the pre-save hook hashes the password
newUser(body) ==
    [name |-> body.name, email |-> body.email,
     password |-> bcryptHash(body.password),
     role |-> IF body.role = "none" THEN "employee" ELSE body.role]

\* POST /api/auth/register (auth.js:14-112); o: the outcome of sendMail for
\* the welcome e-mail, whose failure the handler logs and ignores
Register(bearer, body, o) ==
    /\ req' = [op |-> "register", bearer |-> bearer, body |-> body]
    /\ IF auth(bearer).status # 200
       THEN /\ resp' = Denied(bearer)
            /\ UNCHANGED <<registered, outbox>>
       ELSE IF notAdmin(users[auth(bearer).user].role)
       THEN /\ resp' = Response(403, "Only admins can create new users", NoToken, NoToken)
            /\ UNCHANGED <<registered, outbox>>
       ELSE IF ~validRegistration(body)
       THEN /\ resp' = Response(400, "Validation failed", NoToken, NoToken)
            /\ UNCHANGED <<registered, outbox>>
       ELSE IF existingUser(body.email)
       THEN /\ resp' = Response(400, "User with this email already exists",
                                NoToken, NoToken)
            /\ UNCHANGED <<registered, outbox>>
       ELSE /\ registered' = Append(registered, newUser(body))
            /\ outbox' = Append(outbox, sendEmail("welcome", body.email, o))
            /\ resp' = Response(201, "User created successfully", NoToken, NoToken)
    /\ UNCHANGED <<users, issued, now, advances, revoked>>
    /\ UNCHANGED <<transporter, contacts, aiVars>>
    /\ UNCHANGED <<pending, logins, hits, arrivals, initPc, templates, project, orders>>

\* the principal has any of the three roles of the schema
InitRoles ==
    /\ \E r \in Roles : users = [u \in UserIds |-> [InitUsers[u] EXCEPT !.role = r]]
    /\ issued = {}
    /\ now = 0
    /\ advances = 0
    /\ req = NoReq
    /\ resp = NoResp
    /\ revoked = {}
    /\ InitAI
    /\ InitMail
    /\ InitWeb

\* registration: login, register, the clock, the active flag
NextRegister ==
    \/ \E e \in Emails, p \in Passwords : Login(e, p)
    \/ \E b \in Bearers, body \in RegisterBodies, o \in MailOutcomes :
          Register(b, body, o)
    \/ Advance
    \/ \E u \in UserIds, b \in BOOLEAN : SetActive(u, b)

SpecRegister == InitRoles /\ [][NextRegister]_vars

(***************************************************************************)
(* server.js: the middleware chain in front of the routers                 *)
(***************************************************************************)
\* the app.use() calls that precede the API routers, in order
\* (server.js:96-206, 399)
middlewareChain ==
    <<"requestLog", "helmet", "limiter", "contactLimiter", "compression",
      "morgan", "cors", "json", "urlencoded", "static">>

\* the paths the routers are mounted on and the routes used here
\* (server.js:504-505, contact.js:50, auth.js:117, 200, 254)
ContactsPath == <<"api", "contacts">>
AuthPath(route) == <<"api", "auth", route>>
\* the path the contact limiter is mounted on; no router is mounted there
ContactPath == <<"api", "contact">>

\* app.use(mount, fn): fn runs for the paths that begin with the segments
\* of mount
mounted(mount, path) ==
    /\ Len(path) >= Len(mount)
    /\ SubSeq(path, 1, Len(mount)) = mount

\* one more request counted by a limiter for the client address: the count
\* starts again once the window of the first counted request has passed
hit(l) ==
    IF now * 1000 >= hits[l].resetTime
    THEN [count |-> 1, resetTime |-> now * 1000 + limiterOptions[l].windowMs]
    ELSE [count |-> hits[l].count + 1, resetTime |-> hits[l].resetTime]

\* the value of a property nothing has set
Undefined == [key |-> "undefined", userId |-> "none", email |-> "none",
              role |-> "none", purpose |-> "none", iat |-> 0, exp |-> 0]

\* req.cookies as the chain leaves it: the refreshToken cookie of the Cookie
\* header when a cookie parser is mounted, undefined otherwise
reqCookies(header) ==
    IF includes(middlewareChain, "cookieParser") THEN [refreshToken |-> header]
    ELSE Undefined

\* a request of the client address passes through the chain: the general
\* limiter, then the contact limiter where it is mounted; a limiter answers
\* 429 once its count exceeds max, otherwise the request goes on to the
\* routers with the body parsed and req.cookies as the chain leaves it.
\* arrivals keeps the instants of the contact-form submissions let through.
Arrive(path, header) ==
    /\ req.op # "arrived"
    /\ hit("limiter").count <= MaxArrivals
    /\ LET general == hit("limiter")
           stopped == general.count > limiterOptions["limiter"].max
           applies == ~stopped /\ mounted(limiterOptions["contactLimiter"].mount, path)
           contact == IF applies THEN hit("contactLimiter") ELSE hits["contactLimiter"]
           rejected == stopped \/ (applies /\ contact.count > limiterOptions["contactLimiter"].max)
       IN /\ hits' = [limiter |-> general, contactLimiter |-> contact]
          /\ arrivals' = IF path = ContactsPath /\ ~rejected
                         THEN Append(arrivals, now)
                         ELSE arrivals
          /\ IF rejected
             THEN /\ req' = [op |-> "limited", path |-> path]
                  /\ resp' = Response(429, "Too many requests", NoToken, NoToken)
             ELSE /\ req' = [op |-> "arrived", path |-> path, header |-> header,
                              cookies |-> reqCookies(header)]
                  /\ UNCHANGED resp
    /\ UNCHANGED <<users, issued, now, advances, revoked>>
    /\ UNCHANGED <<aiVars, mailVars>>
    /\ UNCHANGED <<registered, pending, logins, initPc, templates, project, orders>>

\* POST /api/contacts reaches the handler of contact.js:50
ServerContact(body, saved, o1, o2) ==
    /\ req.op = "arrived"
    /\ req.path = ContactsPath
    /\ SubmitContact(body, saved, o1, o2)

\* POST /api/contact: no router is mounted on the path and app.get('*')
\* answers GET only, so express answers 404
ServerNoRoute ==
    /\ req.op = "arrived"
    /\ req.path = ContactPath
    /\ req' = [op |-> "no-route", path |-> req.path]
    /\ resp' = Response(404, "Cannot POST", NoToken, NoToken)
    /\ UNCHANGED <<users, issued, now, advances, revoked>>
    /\ UNCHANGED <<aiVars, mailVars, webVars>>

\* POST /api/auth/login reaches the handler of auth.js:117
ServerLogin(email, password) ==
    /\ req.op = "arrived"
    /\ req.path = AuthPath("login")
    /\ Login(email, password)

\* POST /api/auth/refresh reaches the handler of auth.js:200: reading
\* req.cookies.refreshToken of an undefined req.cookies throws a TypeError
\* inside the try, and the catch answers 401
ServerRefresh ==
    /\ req.op = "arrived"
    /\ req.path = AuthPath("refresh")
    /\ IF req.cookies = Undefined
       THEN /\ req' = [op |-> "refresh", header |-> req.header]
            /\ resp' = Response(401, "Invalid refresh token", NoToken, NoToken)
            /\ UNCHANGED <<users, issued, now, advances, revoked>>
            /\ UNCHANGED <<aiVars, mailVars, webVars>>
       ELSE Refresh(req.cookies.refreshToken)

\* POST /api/auth/logout reaches the auth middleware and then the handler
\* of auth.js:254: the TypeError is thrown inside the try, and the catch
\* answers 500
ServerLogout(bearer) ==
    /\ req.op = "arrived"
    /\ req.path = AuthPath("logout")
    /\ IF auth(bearer).status = 200 /\ req.cookies = Undefined
       THEN /\ req' = [op |-> "logout", header |-> req.header]
            /\ resp' = Response(500, "Logout failed", NoToken, NoToken)
            /\ UNCHANGED <<users, issued, now, advances, revoked>>
            /\ UNCHANGED <<aiVars, mailVars, webVars>>
       ELSE Logout(bearer, IF req.cookies = Undefined THEN NoToken
                           ELSE req.cookies.refreshToken)

\* the contact form behind the limiters, the mail transport delivering
NextLimiter ==
    \/ \E path \in {ContactsPath, ContactPath} : Arrive(path, NoToken)
    \/ \E body \in ContactBodies, saved \in BOOLEAN :
          ServerContact(body, saved, "sent", "sent")
    \/ ServerNoRoute
    \/ CreateTransport
    \/ Advance

SpecLimiter == Init /\ [][NextLimiter]_vars

\* the session routes behind the chain
NextServer ==
    \/ \E route \in {"login", "refresh", "logout"}, c \in Cookies :
          Arrive(AuthPath(route), c)
    \/ \E e \in Emails, p \in Passwords : ServerLogin(e, p)
    \/ ServerRefresh
    \/ \E b \in Bearers : ServerLogout(b)
    \/ Advance

SpecServer == Init /\ [][NextServer]_vars

(***************************************************************************)
(* routes/auth.js POST /login as the event loop runs it: the handler       *)
(* awaits User.findOne and user.comparePassword, and other requests are    *)
(* served in between                                                       *)
(***************************************************************************)
\* the handler up to the promise of user.comparePassword (auth.js:127-152):
\* validation, the lookup, and the comparison of the submitted secret with
\* the hash of the document the lookup loaded
LoginRead(email, password) ==
    /\ pending = NoLogin
    /\ req' = [op |-> "login", email |-> email, password |-> password]
    /\ IF ~isEmail(email) \/ password = ""
       THEN /\ resp' = Response(400, "Validation failed", NoToken, NoToken)
            /\ UNCHANGED pending
       ELSE IF FindActiveByEmail(email) = {}
       THEN /\ resp' = Response(401, "Invalid credentials", NoToken, NoToken)
            /\ UNCHANGED pending
       ELSE LET u == CHOOSE x \in FindActiveByEmail(email) : TRUE IN
            IF ~comparePassword(u, password)
            THEN /\ resp' = Response(401, "Invalid credentials", NoToken, NoToken)
                 /\ UNCHANGED pending
            ELSE /\ pending' = [user |-> u, password |-> password]
                 /\ UNCHANGED resp
    /\ UNCHANGED <<users, issued, now, advances, revoked>>
    /\ UNCHANGED <<aiVars, mailVars>>
    /\ UNCHANGED <<registered, logins, hits, arrivals, initPc, templates, project, orders>>

\* the handler once the comparison has resolved (auth.js:155-184): the two
\* tokens are signed, the refresh token is pushed on the loaded document and
\* user.save() writes the paths the handler modified -- the push on
\* refreshTokens and lastLogin -- to the stored document as it now is
LoginSave ==
    /\ pending # NoLogin
    /\ users[pending.user].exists
    /\ Len(users[pending.user].refreshTokens) < MaxSessions
    /\ req' = [op |-> "login", email |-> users[pending.user].email,
                password |-> pending.password]
    /\ users' = [users EXCEPT ![pending.user].refreshTokens =
                                  generateRefreshToken(pending.user),
                              ![pending.user].lastLogin = now]
    /\ issued' = issued \cup {generateAuthToken(pending.user),
                              refreshTokenOf(pending.user)}
    /\ logins' = logins \cup {[token |-> refreshTokenOf(pending.user),
                               password |-> pending.password]}
    /\ resp' = Response(200, "Login successful",
                        generateAuthToken(pending.user), refreshTokenOf(pending.user))
    /\ pending' = NoLogin
    /\ UNCHANGED <<now, advances, revoked>>
    /\ UNCHANGED <<aiVars, mailVars>>
    /\ UNCHANGED <<registered, hits, arrivals, initPc, templates, project, orders>>

\* a login interleaved with refresh, change-password, forgot-password and
\* reset-password
NextRace ==
    \/ \E e \in Emails, p \in Passwords : LoginRead(e, p)
    \/ LoginSave
    \/ \E c \in Cookies : Refresh(c)
    \/ \E b \in Bearers, p \in Passwords : ChangePassword(b, p, NewPassword)
    \/ \E e \in Emails, ok \in BOOLEAN : ForgotPassword(e, ok)
    \/ \E t \in Bearers : ResetPassword(t, NewPassword)
    \/ Advance

SpecRace == Init /\ [][NextRace]_vars

(***************************************************************************)
(* utils/email.js: EmailService.init() step by step                        *)
(***************************************************************************)
\* templateFiles of loadTemplates, without the extension (email.js:66-73)
templateFiles ==
    <<"contact-notification", "contact-auto-reply", "welcome", "password-reset",
      "newsletter-welcome", "project-update">>

\* init() assigns this.transporter (email.js:20-47); outside production it
\* first awaits nodemailer.createTestAccount(), which may reject
InitTransporter(ok) ==
    /\ initPc = "start"
    /\ IF ok
       THEN /\ transporter' = "ready"
            /\ initPc' = "verify"
       ELSE /\ initPc' = "failed"
            /\ UNCHANGED transporter
    /\ UNCHANGED <<contacts, outbox, templates, aiVars>>
    /\ UNCHANGED <<users, issued, now, advances, req, resp, revoked>>
    /\ UNCHANGED <<registered, pending, logins, hits, arrivals, project, orders>>

\* await this.transporter.verify() (email.js:50): when it rejects, init
\* throws, the constructor's catch logs, and the transporter stays assigned
InitVerify(ok) ==
    /\ initPc = "verify"
    /\ initPc' = IF ok THEN "load" ELSE "failed"
    /\ UNCHANGED <<mailVars, templates, aiVars>>
    /\ UNCHANGED <<users, issued, now, advances, req, resp, revoked>>
    /\ UNCHANGED <<registered, pending, logins, hits, arrivals, project, orders>>

\* one turn of the loop of loadTemplates (email.js:75-87): the file is
\* awaited and compiled, or the default template is created in its place
LoadTemplate ==
    /\ initPc = "load"
    /\ templates' = templates \cup {templateFiles[Cardinality(templates) + 1]}
    /\ initPc' = IF Cardinality(templates) + 1 = Len(templateFiles)
                 THEN "done" ELSE "load"
    /\ UNCHANGED <<mailVars, aiVars>>
    /\ UNCHANGED <<users, issued, now, advances, req, resp, revoked>>
    /\ UNCHANGED <<registered, pending, logins, hits, arrivals, project, orders>>

\* a route calls sendEmail({ to, subject, template, data }); o: the outcome
\* of transporter.sendMail
SendEmail(template, o) ==
    /\ Len(outbox) < MaxMails
    /\ outbox' = Append(outbox, sendEmail(template, "x@y.com", o))
    /\ UNCHANGED <<transporter, contacts, aiVars, webVars>>
    /\ UNCHANGED <<users, issued, now, advances, req, resp, revoked>>

\* init() interleaved with the sendEmail calls of the routes
NextMailInit ==
    \/ \E ok \in BOOLEAN : InitTransporter(ok)
    \/ \E ok \in BOOLEAN : InitVerify(ok)
    \/ LoadTemplate
    \/ \E i \in DOMAIN templateFiles, o \in MailOutcomes :
          SendEmail(templateFiles[i], o)

SpecMailInit == Init /\ [][NextMailInit]_vars

(***************************************************************************)
(* routes/projects.js: GET /:id and PUT /:id/status                        *)
(***************************************************************************)
\* a value with its type: a string and an ObjectId are never === each other
Str(s) == [type |-> "string", value |-> s]
ObjectId(s) == [type |-> "ObjectId", value |-> s]
\* a teamMembers entry without userId
NoId == [type |-> "undefined", value |-> "none"]

\* ObjectId.prototype.toString
toString(v) == Str(v.value)

\* the _id values of Project documents: the stored one, one of no document
ProjectIds == {"p1", "p9"}
FindProject(id) == id = "p1"

\* req.user as the auth middleware builds it (middleware/auth.js:37-42):
\* userId is user._id, the ObjectId of the stored document
reqUser(bearer) ==
    [userId |-> ObjectId(auth(bearer).user),
     role |-> users[auth(bearer).user].role]

\* project.teamMembers.some(member =>
\*     member.userId?.toString() === req.user.userId)   (projects.js:362)
isTeamMember(user) ==
    \E i \in DOMAIN project.teamMembers :
        /\ project.teamMembers[i].userId # NoId
        /\ toString(project.teamMembers[i].userId) = user.userId

\* ['admin', 'manager'].includes(req.user.role) || isTeamMember
hasPermission(user) ==
    user.role \in {"admin", "manager"} \/ isTeamMember(user)

\* body('status').isIn([...])  (projects.js:333-335)
validStatus(status) ==
    status \in {"planning", "in-progress", "completed", "on-hold"}

\* PUT /api/projects/:id/status (projects.js:332-389)
UpdateStatus(bearer, id, status) ==
    /\ req' = [op |-> "project-status", bearer |-> bearer, id |-> id, status |-> status]
    /\ IF auth(bearer).status # 200
       THEN /\ resp' = Denied(bearer)
            /\ UNCHANGED project
       ELSE IF ~validStatus(status)
       THEN /\ resp' = Response(400, "Validation failed", NoToken, NoToken)
            /\ UNCHANGED project
       ELSE IF ~FindProject(id)
       THEN /\ resp' = Response(404, "Project not found", NoToken, NoToken)
            /\ UNCHANGED project
       ELSE IF ~hasPermission(reqUser(bearer))
       THEN /\ resp' = Response(403, "Insufficient permissions", NoToken, NoToken)
            /\ UNCHANGED project
       ELSE /\ project' = [project EXCEPT
                              !.status = status,
                              !.endDate = IF status = "completed" THEN now ELSE @]
            /\ resp' = Response(200, "Project status updated successfully",
                                NoToken, NoToken)
    /\ UNCHANGED <<users, issued, now, advances, revoked>>
    /\ UNCHANGED <<aiVars, mailVars>>
    /\ UNCHANGED <<registered, pending, logins, hits, arrivals, initPc, templates, orders>>

\* the middleware registered on GET /:id before its handler: none
\* (projects.js:106)
getProjectMiddleware == <<>>

\* req.user when the handler runs: set by auth or optionalAuth for a token
\* they accept, undefined when neither is registered on the route
attachedUser(middleware, bearer) ==
    IF (includes(middleware, "auth") \/ includes(middleware, "optionalAuth"))
       /\ auth(bearer).status = 200
    THEN auth(bearer).user
    ELSE NoUser

\* GET /api/projects/:id (projects.js:106-130)
GetProject(bearer, id) ==
    /\ req' = [op |-> "project-get", bearer |-> bearer, id |-> id]
    /\ resp' = IF ~FindProject(id)
               THEN Response(404, "Project not found", NoToken, NoToken)
               ELSE IF ~project.isPublic
                       /\ attachedUser(getProjectMiddleware, bearer) = NoUser
               THEN Response(403, "Access denied", NoToken, NoToken)
               ELSE Response(200, "ok", NoToken, NoToken)
    /\ UNCHANGED <<users, issued, now, advances, revoked>>
    /\ UNCHANGED <<aiVars, mailVars, webVars>>

\* the team lists a project may have: nobody, the principal, somebody else,
\* an entry without userId
TeamLists ==
    {<<>>, <<[name |-> "Dev One", userId |-> ObjectId("u1")]>>,
     <<[name |-> "Dev Two", userId |-> ObjectId("u9")]>>,
     <<[name |-> "Guest", userId |-> NoId]>>}

\* a principal of any role and a project, public or not, with any team
InitProjects ==
    /\ \E r \in Roles : users = [u \in UserIds |-> [InitUsers[u] EXCEPT !.role = r]]
    /\ issued = {}
    /\ now = 0
    /\ advances = 0
    /\ req = NoReq
    /\ resp = NoResp
    /\ revoked = {}
    /\ InitAI
    /\ InitMail
    /\ registered = <<>>
    /\ pending = NoLogin
    /\ logins = {}
    /\ hits = [l \in DOMAIN limiterOptions |-> [count |-> 0, resetTime |-> 0]]
    /\ arrivals = <<>>
    /\ initPc = "start"
    /\ templates = {}
    /\ \E pub \in BOOLEAN, team \in TeamLists :
          project = [InitProject EXCEPT !.isPublic = pub, !.teamMembers = team]
    /\ orders = [r \in Routers |-> [id \in RecordIds |-> 0]]

\* the statuses a client may submit: two of the enum, one outside it
Statuses == {"in-progress", "completed", "archived"}

NextProjects ==
    \/ \E e \in Emails, p \in Passwords : Login(e, p)
    \/ \E b \in Bearers, id \in ProjectIds, st \in Statuses : UpdateStatus(b, id, st)
    \/ \E b \in Bearers, id \in ProjectIds : GetProject(b, id)
    \/ \E u \in UserIds, b \in BOOLEAN : SetActive(u, b)

SpecProjects == InitProjects /\ [][NextProjects]_vars

(***************************************************************************)
(* routes/services.js and routes/team.js: the PUT routes                   *)
(***************************************************************************)
\* the PUT routes of a router in the order of their registration
\* (services.js:135, 261, 290; team.js:138, 253, 282); a pattern is the
\* sequence of its segments
putRoutes ==
    <<[pattern |-> <<":id">>, handler |-> "update"],
      [pattern |-> <<":id", "toggle">>, handler |-> "toggle"],
      [pattern |-> <<"reorder">>, handler |-> "reorder"]>>

\* a route matches a path of as many segments, a parameter matching any
matches(pattern, path) ==
    /\ Len(pattern) = Len(path)
    /\ \A i \in DOMAIN pattern : pattern[i] = ":id" \/ pattern[i] = path[i]

\* the handler express runs: that of the first registered route that
\* matches; none of the handlers calls next()
dispatch(path) ==
    putRoutes[CHOOSE i \in DOMAIN putRoutes :
                 /\ matches(putRoutes[i].pattern, path)
                 /\ \A j \in 1..(i - 1) : ~matches(putRoutes[j].pattern, path)].handler

\* a string of 24 hexadecimal digits: the ids of the stored records and one
\* of no record
isMongoId(id) == id \in RecordIds \cup {"r9"}

\* a body field that is absent
NoOrder == -1

\* the bodies of a PUT: an update of the order field, a reorder of the two
\* records, a reorder with an empty list
PutBodies ==
    {[order |-> 5, list |-> <<>>, reorder |-> FALSE],
     [order |-> NoOrder, reorder |-> TRUE,
      list |-> <<[id |-> "r1", order |-> 2], [id |-> "r2", order |-> 1]>>],
     [order |-> NoOrder, reorder |-> TRUE, list |-> <<>>]}

\* the validation chain of PUT /reorder (services.js:291-302)
validReorder(body) ==
    /\ body.reorder
    /\ Len(body.list) >= 1
    /\ \A i \in DOMAIN body.list :
           isMongoId(body.list[i].id) /\ body.list[i].order >= 0

\* Promise.all(list.map(({ id, order }) => findByIdAndUpdate(id, { order })))
RECURSIVE reordered(_, _)
reordered(o, list) ==
    IF list = <<>> THEN o
    ELSE reordered(IF Head(list).id \in DOMAIN o
                   THEN [o EXCEPT ![Head(list).id] = Head(list).order]
                   ELSE o,
                   Tail(list))

\* process.env.NODE_ENV, which the error handler branches on
NodeEnvs == {"development", "production"}

\* errorHandler for the CastError of findByIdAndUpdate (errorHandler.js:
\* 74-95): statusCode 500 in development, 400 otherwise
castErrorResponse(env) ==
    IF env = "development"
    THEN Response(500, "Cast to ObjectId failed", NoToken, NoToken)
    ELSE Response(400, "Invalid _id", NoToken, NoToken)

\* a PUT below /api/services or /api/team: auth, authorize(['admin']), then
\* the handler of the route that express dispatches to
Put(r, bearer, path, body, env) ==
    /\ req' = [op |-> "put", router |-> r, bearer |-> bearer, path |-> path,
                body |-> body, handler |-> dispatch(path)]
    /\ IF auth(bearer).status # 200
       THEN /\ resp' = Denied(bearer)
            /\ UNCHANGED orders
       ELSE IF authorize(<<"admin">>, users[auth(bearer).user].role).status # 200
       THEN /\ resp' = authorize(<<"admin">>, users[auth(bearer).user].role)
            /\ UNCHANGED orders
       ELSE IF dispatch(path) = "update"
       THEN IF ~isMongoId(path[1])
            THEN /\ resp' = castErrorResponse(env)
                 /\ UNCHANGED orders
            ELSE IF path[1] \notin RecordIds
            THEN /\ resp' = Response(404, "not found", NoToken, NoToken)
                 /\ UNCHANGED orders
            ELSE /\ orders' = IF body.order # NoOrder
                              THEN [orders EXCEPT ![r][path[1]] = body.order]
                              ELSE orders
                 /\ resp' = Response(200, "updated successfully", NoToken, NoToken)
       ELSE IF dispatch(path) = "toggle"
       THEN /\ resp' = IF path[1] \in RecordIds
                       THEN Response(200, "toggled successfully", NoToken, NoToken)
                       ELSE Response(404, "not found", NoToken, NoToken)
            /\ UNCHANGED orders
       ELSE IF ~validReorder(body)
       THEN /\ resp' = Response(400, "Validation failed", NoToken, NoToken)
            /\ UNCHANGED orders
       ELSE /\ orders' = [orders EXCEPT ![r] = reordered(@, body.list)]
            /\ resp' = Response(200, "reordered successfully", NoToken, NoToken)
    /\ UNCHANGED <<users, issued, now, advances, revoked>>
    /\ UNCHANGED <<aiVars, mailVars>>
    /\ UNCHANGED <<registered, pending, logins, hits, arrivals, initPc, templates, project>>

\* the paths of a PUT below the router
PutPaths == {<<"r1">>, <<"r9">>, <<"reorder">>, <<"r2", "toggle">>}

NextReorder ==
    \/ \E e \in Emails, p \in Passwords : Login(e, p)
    \/ \E r \in Routers, b \in Bearers, path \in PutPaths, body \in PutBodies,
          env \in NodeEnvs : Put(r, b, path, body, env)

SpecReorder == InitRoles /\ [][NextReorder]_vars

(***************************************************************************)
(* Claims                                                                  *)
(***************************************************************************)
\* the steps of the routes, told by the request they record
LoginStep == req'.op = "login" /\ Login(req'.email, req'.password)
RefreshStep(c) == req'.op = "refresh" /\ Refresh(c)
GetMeStep(b) == req'.op = "me" /\ GetMe(b)
LogoutStep(b, c) == req'.op = "logout" /\ Logout(b, c)
LogoutAllStep(b) == req'.op = "logout-all" /\ LogoutAll(b)
ResetPasswordStep ==
    req'.op = "reset-password" /\ ResetPassword(req'.token, NewPassword)

\* the principal that owns an e-mail address, whatever its active flag
OwnerOf(e) == {u \in UserIds : users[u].exists /\ users[u].email = e}

\* C1: a login for a principal whose active flag is false fails with
\* 401 "Invalid credentials" for every submitted secret, correct or not,
\* hands out no token, appends nothing to refreshTokens and leaves lastLogin
\* as it was.
C1_InactiveLoginFails ==
    [][( /\ LoginStep
         /\ req'.password # ""
         /\ \E u \in OwnerOf(req'.email) : ~users[u].isActive )
              => /\ resp' = Response(401, "Invalid credentials", NoToken, NoToken)
                 /\ users' = users
                 /\ issued' = issued]_vars

\* a login with the correct secret of an inactive principal was answered 401
C1_Witness ==
    /\ req.op = "login"
    /\ resp.status = 401
    /\ \E u \in OwnerOf(req.email) :
          /\ ~users[u].isActive
          /\ comparePassword(u, req.password)
          /\ users[u].lastLogin = NoDate

\* the tokens handed to clients, by kind
IssuedRefresh == {t \in issued : t.key = JWT_REFRESH_SECRET}
IssuedAccess == {t \in issued : t.key = JWT_SECRET /\ t.purpose = "none"}
IssuedReset == {t \in issued : t.key = JWT_SECRET /\ t.purpose = "password-reset"}

\* a step that is a successful login
LoginSucceeds == LoginStep /\ resp'.status = 200

\* C2: once logout-all has completed for a principal, every refresh token
\* issued to it before is unlisted; an unlisted refresh token becomes listed
\* again by no step other than a new login; and refresh refuses (401) every
\* issued refresh token that is not listed.
C2_RevokeAllKillsRefresh ==
    /\ [](\A t \in IssuedRefresh :
             t \notin Listed(t.userId) => refreshResponse(t).status = 401)
    /\ [][\A u \in UserIds :
             /\ ( /\ req'.op = "logout-all"
                  /\ resp'.status = 200
                  /\ \E b \in Bearers : LogoutAllStep(b) /\ auth(b).user = u )
                   => IssuedRefresh \cap Listed(u)' = {}
             /\ \/ (IssuedRefresh \cap Listed(u)') \subseteq Listed(u)
                \/ LoginSucceeds]_vars

\* logout-all was the last request, it succeeded, and an unexpired refresh
\* token it removed from the store of the still active principal is refused
C2_Witness ==
    /\ req.op = "logout-all"
    /\ resp.status = 200
    /\ \E t \in IssuedRefresh \cap revoked :
          /\ jwtVerify(t, JWT_REFRESH_SECRET) = "ok"
          /\ ~MissingOrInactive(t.userId)
          /\ refreshResponse(t).status = 401

\* C3: refresh answers an expired (correctly signed) refresh token and an
\* unexpired one that is no longer listed with responses the caller can tell
\* apart (TokenExpired against InvalidToken).
C3_ExpiredDistinctFromRevoked ==
    \A c1, c2 \in IssuedRefresh :
        ( /\ jwtVerify(c1, JWT_REFRESH_SECRET) = "TokenExpiredError"
          /\ jwtVerify(c2, JWT_REFRESH_SECRET) = "ok"
          /\ c2 \notin Listed(c2.userId) )
            => refreshResponse(c1) # refreshResponse(c2)

\* C4: a login with the e-mail of an active principal and the matching secret
\* answers 200 with an access token that carries the principal's id, e-mail
\* and role, appends exactly one entry (the refresh token of the response) to
\* refreshTokens, leaving the existing entries as they were, and sets
\* lastLogin.
C4_LoginIssuesTokens ==
    [][\A u \in UserIds :
          ( /\ LoginStep
            /\ users[u].exists /\ users[u].isActive
            /\ users[u].email = req'.email
            /\ comparePassword(u, req'.password) )
              => /\ resp'.status = 200
                 /\ resp'.token.key = JWT_SECRET
                 /\ resp'.token.userId = u
                 /\ resp'.token.email = users[u].email
                 /\ resp'.token.role = users[u].role
                 /\ resp'.token.exp = now + AccessTTL
                 /\ resp'.cookie.key = JWT_REFRESH_SECRET
                 /\ resp'.cookie.userId = u
                 /\ resp'.cookie.exp = now + RefreshTTL
                 /\ Len(users'[u].refreshTokens) = Len(users[u].refreshTokens) + 1
                 /\ SubSeq(users'[u].refreshTokens, 1, Len(users[u].refreshTokens))
                        = users[u].refreshTokens
                 /\ users'[u].refreshTokens[Len(users'[u].refreshTokens)].token
                        = resp'.cookie
                 /\ users'[u].lastLogin = now]_vars

\* a second login of the principal succeeded: two entries are listed, the
\* last one is the refresh token of the response
C4_Witness ==
    /\ req.op = "login"
    /\ resp.status = 200
    /\ \E u \in UserIds :
          /\ resp.token.userId = u
          /\ Len(users[u].refreshTokens) = 2
          /\ users[u].refreshTokens[2].token = resp.cookie
          /\ users[u].lastLogin = now

\* C5: logout-all does not invalidate access tokens: every access token of
\* the principal that is unexpired when logout-all completes is accepted by
\* the auth middleware afterwards.
C5_RevokeAllKeepsAccess ==
    [][(req'.op = "logout-all" /\ resp'.status = 200)
          => \A b \in Bearers :
                LogoutAllStep(b)
                    => \A t \in IssuedAccess :
                          ( /\ t.userId = auth(b).user
                            /\ jwtVerify(t, JWT_SECRET) = "ok" )
                              => auth(t)'.status = 200]_vars

\* logout-all succeeded, the store is empty, and an access token issued at an
\* earlier instant is still accepted
C5_Witness ==
    /\ req.op = "logout-all"
    /\ resp.status = 200
    /\ \E t \in IssuedAccess :
          /\ t.iat < now
          /\ users[t.userId].refreshTokens = <<>>
          /\ auth(t).status = 200

\* C6 as stated: the auth middleware accepts an access token exactly when
\* its signature verifies and it is unexpired, whatever the principal store
\* holds.
C6_Stateless ==
    \A t \in IssuedAccess :
        (auth(t).status = 200) <=> (jwtVerify(t, JWT_SECRET) = "ok")

\* C6 as amended: the auth middleware accepts an access token exactly when
\* its signature verifies, it is unexpired, and the principal it names still
\* exists and is active; nothing else of the principal store (refreshTokens,
\* password, lastLogin) enters the decision.
C6_DependsOnActiveOnly ==
    \A t \in IssuedAccess :
        (auth(t).status = 200)
            <=> ( /\ t.key = JWT_SECRET
                  /\ now < t.exp
                  /\ users[t.userId].exists
                  /\ users[t.userId].isActive )

\* a protected route refused a correctly signed, unexpired access token
\* because its principal is inactive
C6_Witness ==
    /\ req.op = "me"
    /\ resp.status = 401
    /\ resp.message = "Invalid token. User not found or inactive."
    /\ \E t \in IssuedAccess :
          /\ jwtVerify(t, JWT_SECRET) = "ok"
          /\ users[t.userId].exists
          /\ ~users[t.userId].isActive

\* C7: a principal whose active flag is false authenticates by no path:
\* login is refused, refresh with a listed refresh token is refused, a
\* protected route refuses its access tokens, and reset-password with a valid
\* reset token is refused and changes nothing.
C7_InactiveNeverAuthenticates ==
    [][\A u \in UserIds :
          (users[u].exists /\ ~users[u].isActive)
              => /\ (LoginStep /\ req'.email = users[u].email)
                            => /\ resp'.status \in {400, 401}
                               /\ resp'.token = NoToken
                               /\ resp'.cookie = NoToken
                               /\ issued' = issued
                 /\ \A c \in Listed(u) :
                        RefreshStep(c)
                            => /\ resp'.status = 401
                               /\ resp'.token = NoToken
                               /\ issued' = issued
                 /\ \A b \in IssuedAccess :
                        (GetMeStep(b) /\ b.userId = u) => resp'.status = 401
                 /\ ( /\ ResetPasswordStep
                      /\ req'.token \in IssuedReset
                      /\ req'.token.userId = u
                      /\ jwtVerify(req'.token, JWT_SECRET) = "ok" )
                            => /\ resp'.status = 400
                               /\ users' = users]_vars

\* reset-password was refused for an unexpired reset token of an inactive
\* principal that still has a listed refresh token
C7_Witness ==
    /\ req.op = "reset-password"
    /\ resp.status = 400
    /\ req.token \in IssuedReset
    /\ jwtVerify(req.token, JWT_SECRET) = "ok"
    /\ users[req.token.userId].exists
    /\ ~users[req.token.userId].isActive
    /\ users[req.token.userId].refreshTokens # <<>>
    /\ users[req.token.userId].password = bcryptHash("pwA")

\* C8: a refresh-token string that logout or logout-all has removed from the
\* store is never accepted by refresh again.
C8_RevokedIsTerminal ==
    \A t \in revoked : refreshResponse(t).status # 200

\* C9: a logout whose cookie is listed removes exactly one entry of
\* refreshTokens, the one of the session that logs out.
C9_LogoutRemovesOneEntry ==
    [][\A b \in Bearers, c \in Cookies :
          ( /\ LogoutStep(b, c)
            /\ resp'.status = 200
            /\ c \in Listed(auth(b).user) )
              => Len(users'[auth(b).user].refreshTokens)
                     = Len(users[auth(b).user].refreshTokens) - 1]_vars

\* C10: authorize(roles) calls next() exactly when a principal is attached
\* and roles is empty or holds the principal's role; no principal is
\* answered 401, a principal whose role is missing from roles is answered
\* 403, admin included.
C10_AuthorizeMembership ==
    req.op = "authorized"
        => /\ (resp.status = 200) <=>
                  ( /\ req.role # NoUser
                    /\ (req.roles = <<>>
                          \/ \E i \in DOMAIN req.roles : req.roles[i] = req.role) )
           /\ req.role = NoUser => resp.status = 401
           /\ (req.role # NoUser /\ resp.status # 200)
                  => (resp.status = 403 /\ resp.message = "Insufficient permissions.")

\* authorize(['manager']) has answered an admin with 403
C10_Witness ==
    /\ req.op = "authorized"
    /\ req.role = "admin"
    /\ req.roles = <<"manager">>
    /\ resp.status = 403

\* the calls of the AI functions the behaviour has made (the burst that
\* loaded the window before it began left aside) and the admitted calls
NewCalls == {i \in DOMAIN calls : calls[i].caller # "burst"}
Admitted == {i \in DOMAIN calls : calls[i].admitted}

\* the admitted calls made before call i and less than windowMs before it
AdmittedBefore(i) ==
    {j \in Admitted : j < i /\ calls[i].at - calls[j].at < windowMs}

\* C11: a call is admitted exactly when fewer than maxRequests calls were
\* admitted within the windowMs before it: from an empty window maxRequests
\* calls pass, the next one within the window is refused, refused calls do
\* not count, and a call made once windowMs has passed since the oldest
\* admitted call passes again.
C11_RateWindow ==
    /\ \A i \in NewCalls :
          calls[i].admitted <=> Cardinality(AdmittedBefore(i)) < maxRequests
    /\ \A k \in DOMAIN requests :
          Cardinality({i \in DOMAIN requests : requests[i] = requests[k]})
              <= Cardinality({j \in Admitted : calls[j].at = requests[k]})

\* a call was refused on a full window and a later call, made windowMs after
\* the calls that filled it, was admitted; the refused call left no entry
C11_Witness ==
    \E i, k \in NewCalls :
        /\ i < k
        /\ ~calls[i].admitted
        /\ Cardinality(AdmittedBefore(i)) = maxRequests
        /\ calls[k].admitted
        /\ calls[k].at - calls[1].at >= windowMs
        /\ requests = <<calls[k].at>>

\* C12: every outbound post, retries included, has its own admitted entry in
\* the rate window, so no more than maxRequests posts are sent within any
\* windowMs.
C12_EveryPostIsCounted ==
    /\ Len(posts) <= Cardinality(Admitted)
    /\ \A i \in DOMAIN posts :
          Cardinality({j \in DOMAIN posts :
                          posts[j] >= posts[i] /\ posts[j] - posts[i] < windowMs})
              <= maxRequests

\* C13: under every interleaving of the callers, rateLimiter.requests never
\* holds more than maxRequests timestamps and no more than maxRequests calls
\* are admitted within any windowMs: two callers never both take the last
\* free slot.
C13_WindowNeverExceeded ==
    /\ Len(requests) <= maxRequests
    /\ \A i \in NewCalls :
          calls[i].admitted => Cardinality(AdmittedBefore(i)) + 1 <= maxRequests

\* one slot was free, both callers have called at the same instant: one was
\* admitted and is awaiting the provider, the other was refused meanwhile
C13_Witness ==
    \E c, d \in Callers :
        /\ callers[c].pc = "await"
        /\ callers[d].pc = "done"
        /\ callers[d].attempts = 0
        /\ callers[d].startedAt = callers[c].startedAt
        /\ Len(requests) = maxRequests

\* what the caller of function fn is handed when the provider's outcome o
\* ends the call in an error
UpstreamFailure(fn, o) ==
    IF fn = "generateProjectSuggestions"
    THEN suggestionsCatch(IF o = "200-malformed" THEN "malformed" ELSE o)
    ELSE simpleResult(o)

\* C14: a caller refused by the rate window is handed an error that tells
\* the delay to wait and that differs from every error an upstream failure
\* ends in, whichever AI function was called.
C14_RateLimitErrorDistinct ==
    \A c \in Callers :
        (callers[c].pc = "done" /\ callers[c].attempts = 0)
            => /\ callers[c].result.kind = "error"
               /\ callers[c].result.retryAfter # NoHint
               /\ \A o \in Outcomes \ {"200", "204"} :
                      callers[c].result # UpstreamFailure(callers[c].fn, o)

\* the call of generateProjectSuggestions the retry specification follows
TheCall == callers["c1"]
LastOutcome == TheCall.outcomes[Len(TheCall.outcomes)]

\* C15: the retry loop sleeps baseDelay * 2^(k-1) after the k-th HTTP 429;
\* 429, 429, 200 ends in the payload after sleeps of baseDelay and
\* 2 * baseDelay, the third post leaving no sooner than 3 * baseDelay after
\* the first; 429 on all three attempts ends in the "temporarily
\* unavailable" error after the same two sleeps and none after the last.
C15_ExponentialBackoff ==
    /\ \A k \in DOMAIN TheCall.slept : TheCall.slept[k] = baseDelay * 2 ^ (k - 1)
    /\ (TheCall.pc = "done" /\ TheCall.outcomes = <<"429", "429", "200">>)
          => /\ TheCall.result = Payload
             /\ TheCall.slept = <<baseDelay, 2 * baseDelay>>
             /\ TheCall.attempts = 3
             /\ posts[3] - posts[1] >= baseDelay + 2 * baseDelay
    /\ TheCall.outcomes = <<"429", "429", "429">>
          => /\ TheCall.pc = "done"
             /\ TheCall.result = Failure("Service temporarily unavailable due to high demand. Please try again in a few minutes.", NoHint)
             /\ TheCall.slept = <<baseDelay, 2 * baseDelay>>
             /\ TheCall.attempts = 3

\* the provider answered 429, 429, 200 and the call returned the payload
C15_Witness ==
    /\ TheCall.pc = "done"
    /\ TheCall.outcomes = <<"429", "429", "200">>
    /\ TheCall.result.kind = "ok"
    /\ TheCall.slept = <<1000, 2000>>

\* C16: a timeout of an attempt is retried as an HTTP 429 is: a call that
\* ends on a timeout has made all maxRetries attempts.
C16_TimeoutIsRetried ==
    (TheCall.pc = "done" /\ TheCall.outcomes # <<>> /\ LastOutcome = "timeout")
        => TheCall.attempts = maxRetries

\* C17: HTTP 403 and a 200 with a malformed body end the call at once: no
\* post and no sleep follows, a first attempt that ends so is the only one,
\* and the error handed to the caller is not the "temporarily unavailable"
\* one of exhausted retries.
C17_NonTransientNotRetried ==
    (TheCall.outcomes # <<>> /\ LastOutcome \in {"403", "200-malformed"})
        => /\ TheCall.pc = "done"
           /\ TheCall.attempts = Len(TheCall.outcomes)
           /\ Len(TheCall.slept) < Len(TheCall.outcomes)
           /\ Len(TheCall.outcomes) = 1
                 => (TheCall.attempts = 1 /\ TheCall.slept = <<>> /\ Len(posts) = 1)
           /\ TheCall.result.kind = "error"
           /\ TheCall.result.message #
                 "Service temporarily unavailable due to high demand. Please try again in a few minutes."

\* the provider answered the first post with 403: one attempt, no sleep,
\* the "access denied" error
C17_Witness ==
    /\ TheCall.pc = "done"
    /\ TheCall.outcomes = <<"403">>
    /\ TheCall.attempts = 1
    /\ TheCall.slept = <<>>
    /\ TheCall.result.message = "API access denied. Please check API key configuration."

\* C18: whatever the provider answers, one call of
\* generateProjectSuggestions sends at most maxRetries posts.
C18_AtMostThreeAttempts == TheCall.attempts <= maxRetries

\* C19: sendEmail retries a sendMail that failed transiently, up to
\* maxRetries attempts, before it throws.
C19_EmailIsRetried ==
    \A i \in DOMAIN outbox :
        ( /\ outbox[i].result = "error"
          /\ outbox[i].outcomes # <<>>
          /\ outbox[i].outcomes[1] = "transient" )
            => Len(outbox[i].outcomes) = maxRetries

\* a step of POST /api/contact, told by the request it records
SubmitContactStep ==
    /\ req'.op = "contact"
    /\ \E o1, o2 \in MailOutcomes : SubmitContact(req'.body, req'.saved, o1, o2)

\* C20: a contact submission that passes validation and is saved is answered
\* 201 and appended to the collection whatever became of the two e-mails,
\* and no step removes or alters a saved contact.
C20_EmailFailureKeepsContact ==
    [][/\ ( /\ SubmitContactStep
            /\ validContact(req'.body)
            /\ req'.saved )
              => /\ resp'.status = 201
                 /\ contacts' = Append(contacts, req'.body)
       /\ Len(contacts') >= Len(contacts)
       /\ SubSeq(contacts', 1, Len(contacts)) = contacts]_vars

\* a submission was answered 201 and saved though the notification e-mail
\* failed and the auto-reply was never attempted
C20_Witness ==
    /\ req.op = "contact"
    /\ resp.status = 201
    /\ contacts # <<>>
    /\ contacts[Len(contacts)] = req.body
    /\ outbox # <<>>
    /\ outbox[Len(outbox)].template = "contact-notification"
    /\ outbox[Len(outbox)].result = "error"

\* a step of POST /api/auth/register, told by the request it records
RegisterStep ==
    /\ req'.op = "register"
    /\ \E o \in MailOutcomes : Register(req'.bearer, req'.body, o)

\* C21: a registration sent by an authenticated principal whose role is
\* manager or employee is answered 403 and creates no user, whatever its
\* body; and every user ever created was created by a request of an admin.
C21_OnlyAdminRegisters ==
    [][RegisterStep =>
         /\ ( /\ auth(req'.bearer).status = 200
              /\ users[auth(req'.bearer).user].role \in {"manager", "employee"} )
                => /\ resp'.status = 403
                   /\ registered' = registered
         /\ registered' # registered
                => /\ auth(req'.bearer).status = 200
                   /\ users[auth(req'.bearer).user].role = "admin"]_vars

\* a manager's registration with a body that passes validation and names a
\* new address was answered 403 and nobody was created
C21_Witness ==
    /\ req.op = "register"
    /\ auth(req.bearer).status = 200
    /\ users[auth(req.bearer).user].role = "manager"
    /\ validRegistration(req.body)
    /\ ~existingUser(req.body.email)
    /\ resp.status = 403
    /\ registered = <<>>

\* C22: the contact limiter lets at most 5 submissions of one client address
\* per hour through to the contact-form handler: no submission reaches the
\* handler when five others reached it within the hour before.
C22_ContactLimiterApplies ==
    \A i \in DOMAIN arrivals :
        Cardinality({j \in 1..(i - 1) :
                        arrivals[j] * 1000 >
                            arrivals[i] * 1000 - limiterOptions["contactLimiter"].windowMs})
            < limiterOptions["contactLimiter"].max

\* the request in flight carries the refreshToken cookie of a login of a
\* principal that is still active, the token unexpired and still listed
CarriesLiveCookie ==
    /\ req.op = "arrived"
    /\ req.header \in IssuedRefresh
    /\ jwtVerify(req.header, JWT_REFRESH_SECRET) = "ok"
    /\ FindForRefresh(req.header.userId, req.header) # {}

\* C25: in the server as assembled, a refresh that carries a live cookie is
\* answered 200 with a new access token of the principal, and a logout that
\* carries it removes the token from the principal's refreshTokens.
C25_CookieSessionWorks ==
    [][CarriesLiveCookie =>
         /\ ServerRefresh
               => /\ resp'.status = 200
                  /\ resp'.token = generateAuthToken(req.header.userId)
         /\ \A b \in Bearers :
                ( /\ auth(b).status = 200
                  /\ auth(b).user = req.header.userId
                  /\ ServerLogout(b) )
                    => /\ resp'.status = 200
                       /\ req.header \notin Listed(req.header.userId)']_vars

\* C23: once the password of a principal has been changed or reset, no
\* refresh token that a login handed out for the password it replaced is
\* accepted by refresh (a token string that a login with the present
\* password handed out as well is left aside).
C23_PasswordChangeEndsSessions ==
    \A e \in logins :
        ( /\ users[e.token.userId].exists
          /\ ~comparePassword(e.token.userId, e.password)
          /\ ~\E f \in logins : /\ f.token = e.token
                                 /\ comparePassword(e.token.userId, f.password) )
            => refreshResponse(e.token).status # 200

\* C24: forgot-password answers every well-formed address alike, whether a
\* principal owns it or not and whether the reset e-mail could be sent or
\* not: 200 with the one message that names no outcome.
C24_ForgotPasswordUniform ==
    (req.op = "forgot-password" /\ isEmail(req.email))
        => resp = Response(200,
                           "If the email exists, a password reset link has been sent.",
                           NoToken, NoToken)

\* C26: the auth middleware lets through only access tokens, signed by
\* generateAuthToken at a login or a refresh -- no password-reset token and
\* no refresh token -- and reset-password succeeds only for a token that
\* forgot-password signed.
C26_TokenKindsDistinct ==
    /\ \A t \in issued : auth(t).status = 200 => t \in IssuedAccess
    /\ (req.op = "reset-password" /\ resp.status = 200)
          => req.token \in IssuedReset

\* C27: whatever the progress of init(), a sendEmail call that names one of
\* the six templates and whose message the transport delivered carried the
\* rendered template as its html body.
C27_NoEmptyBody ==
    \A i \in DOMAIN outbox :
        ( /\ includes(templateFiles, outbox[i].template)
          /\ outbox[i].result = "sent" )
            => outbox[i].html = "rendered"

\* the steps of the two project routes, told by the request they record
UpdateStatusStep ==
    /\ req'.op = "project-status"
    /\ UpdateStatus(req'.bearer, req'.id, req'.status)
GetProjectStep ==
    /\ req'.op = "project-get"
    /\ GetProject(req'.bearer, req'.id)

\* the principal is listed, by user id, in the project's teamMembers
ListedInTeam(u) ==
    \E i \in DOMAIN project.teamMembers :
        /\ project.teamMembers[i].userId # NoId
        /\ project.teamMembers[i].userId.value = u

\* C28: a status update of an existing project, with a valid status, sent
\* by an authenticated principal succeeds if and only if the principal's
\* role is admin or manager or the principal is listed in teamMembers;
\* otherwise it is answered 403 and the project is unchanged.
C28_TeamMemberMayUpdate ==
    [][( /\ UpdateStatusStep
         /\ auth(req'.bearer).status = 200
         /\ validStatus(req'.status)
         /\ FindProject(req'.id) )
          => IF \/ users[auth(req'.bearer).user].role \in {"admin", "manager"}
                \/ ListedInTeam(auth(req'.bearer).user)
             THEN /\ resp'.status = 200
                  /\ project'.status = req'.status
             ELSE /\ resp'.status = 403
                  /\ project' = project]_vars

\* C29: a request for a non-public project is answered with the project if
\* it bears the valid access token of an active principal, and 403 if it
\* bears no token.
C29_AuthenticatedSeesPrivate ==
    [][( /\ GetProjectStep
         /\ FindProject(req'.id)
         /\ ~project.isPublic )
          => /\ auth(req'.bearer).status = 200 => resp'.status = 200
             /\ req'.bearer = NoToken => resp'.status = 403]_vars

\* a PUT, told by the request it records
PutStep ==
    /\ req'.op = "put"
    /\ \E env \in NodeEnvs :
          Put(req'.router, req'.bearer, req'.path, req'.body, env)

\* C30: a PUT of /reorder sent by an admin with a valid reorder body runs
\* the reorder handler: it is answered 200 and every listed record has the
\* order the body gives it.
C30_ReorderIsReached ==
    [][( /\ PutStep
         /\ req'.path = <<"reorder">>
         /\ auth(req'.bearer).status = 200
         /\ users[auth(req'.bearer).user].role = "admin"
         /\ validReorder(req'.body) )
          => /\ req'.handler = "reorder"
             /\ resp'.status = 200
             /\ \A i \in DOMAIN req'.body.list :
                    req'.body.list[i].id \in RecordIds
                      => orders'[req'.router][req'.body.list[i].id]
                             = req'.body.list[i].order]_vars

====
